---- MODULE Spec2Model ----
(***************************************************************************)
(* Model of midi2strudel/midi_to_strudel.py: a MIDI file (a list of        *)
(* tracks of timed messages plus ticks_per_beat) is scanned once for       *)
(* set_tempo messages and once for note_on / note_off pairs, and the       *)
(* result is rendered as a Strudel mini-notation line.                     *)
(*                                                                         *)
(* Python floats are modelled by exact rationals <<n, d>> in lowest terms  *)
(* with d > 0; round(x, k) is modelled on the exact rational (ties to      *)
(* even).  The inputs are chosen so that no quotient is an exact tie.      *)
(* ticks_per_beat is taken positive, as a metrical MIDI header gives it;   *)
(* the microseconds-per-beat of a set_tempo message may be 0, which mido   *)
(* parses without complaint.                                               *)
(***************************************************************************)
EXTENDS Integers, Sequences, FiniteSets, TLC

VARIABLES midi, notes, durations, note_on_times, tempo_events, tempo_bpm,
          current_time, ti, mi, pc,
          note_names, dur_values, slow_factor, cpm_value, mini_notation,
          stdout

vars == <<midi, notes, durations, note_on_times, tempo_events, tempo_bpm,
          current_time, ti, mi, pc,
          note_names, dur_values, slow_factor, cpm_value, mini_notation,
          stdout>>

----------------------------------------------------------------------------
(* Bounds of the explored inputs *)

MaxMsgs == 4
MaxTracks == 2

(* Program constants *)

DEFAULT_TEMPO_BPM == 120
MICROSECONDS_PER_MINUTE == 60000000
CPM_FACTOR == 4
DUR_DIGITS == 3
CPM_DIGITS == 3
SLOW_DIGITS == 4

----------------------------------------------------------------------------
(* Rational arithmetic standing for Python's float arithmetic *)

Abs(x) == IF x < 0 THEN -x ELSE x

RECURSIVE GCD(_, _)
GCD(a, b) == IF b = 0 THEN a ELSE GCD(b, a % b)

\* a / b for b # 0, as a rational in lowest terms with positive denominator
TrueDiv(a, b) ==
    LET g == GCD(Abs(a), Abs(b))
        s == IF b < 0 THEN -1 ELSE 1
    IN  <<(s * a) \div g, (s * b) \div g>>

\* int or float value as a rational
Rat(x) == <<x, 1>>

\* q * k for an integer k
RatTimes(q, k) == TrueDiv(q[1] * k, q[2])

\* truthiness of a number: zero is false
Truthy(q) == q[1] # 0

\* the first `digits` decimals of r / d (0 <= r < d), appended to acc;
\* returns <<scaled value, remainder>>
RECURSIVE LongDiv(_, _, _, _)
LongDiv(acc, r, d, digits) ==
    IF digits = 0 THEN <<acc, r>>
    ELSE LongDiv(acc * 10 + ((r * 10) \div d), (r * 10) % d, d, digits - 1)

\* round(q, digits), as the integer round(q, digits) * 10^digits
Round(q, digits) ==
    LET n == Abs(q[1])
        d == q[2]
        ld == LongDiv(n \div d, n % d, d, digits)
        up == \/ 2 * ld[2] > d
              \/ 2 * ld[2] = d /\ ld[1] % 2 = 1
        m == IF up THEN ld[1] + 1 ELSE ld[1]
    IN  IF q[1] < 0 THEN -m ELSE m

----------------------------------------------------------------------------
(* Pitch naming and float formatting *)

NOTE_NAMES == <<"C", "C#", "D", "D#", "E", "F", "F#", "G", "G#", "A", "A#", "B">>

\* variant: the octave is numbered from 0
note_name_from_zero(midi_note) ==
    NOTE_NAMES[(midi_note % 12) + 1] \o ToString(midi_note \div 12)

\* def note_name(midi_note)
note_name(midi_note) ==
    LET name == NOTE_NAMES[(midi_note % 12) + 1]
        octave == (midi_note \div 12) - 1
    IN  name \o ToString(octave)

\* the decimals of a float with at most three of them, as str() prints them:
\* trailing zeros dropped, one digit kept
Decimals3(f) ==
    IF f % 100 = 0 THEN ToString(f \div 100)
    ELSE IF f % 10 = 0
         THEN ToString(f \div 100) \o ToString((f \div 10) % 10)
         ELSE ToString(f \div 100) \o ToString((f \div 10) % 10) \o ToString(f % 10)

\* str(x) of a float x = m / 1000, as the f-string of line 51 formats it
FloatStr3(m) ==
    (IF m < 0 THEN "-" ELSE "") \o ToString(Abs(m) \div 1000) \o "."
        \o Decimals3(Abs(m) % 1000)

\* " ".join(tokens)
RECURSIVE Join(_)
Join(tokens) ==
    IF tokens = <<>> THEN ""
    ELSE IF Len(tokens) = 1 THEN tokens[1]
    ELSE tokens[1] \o " " \o Join(Tail(tokens))

\* zip(a, b) stops at the shorter list
ZipLen(a, b) == IF Len(a) < Len(b) THEN Len(a) ELSE Len(b)

\* " ".join([f"{note}@{dur}" for note, dur in zip(note_names, dur_values)])
MiniNotation(names, durs) ==
    Join([i \in 1..ZipLen(names, durs) |-> names[i] \o "@" \o FloatStr3(durs[i])])

----------------------------------------------------------------------------
(* Messages, as mido delivers them *)

NoteOn(n, v, t) == [type |-> "note_on", time |-> t, note |-> n, velocity |-> v]
NoteOff(n, t) == [type |-> "note_off", time |-> t, note |-> n, velocity |-> 64]
SetTempo(us, t) == [type |-> "set_tempo", time |-> t, tempo |-> us]
Other(t) == [type |-> "control_change", time |-> t]

\* the tracks obtained by cutting the message sequence flat after the
\* positions cuts[1] <= cuts[2] <= ... ; the last track takes the rest
Cut(flat, cuts) ==
    LET k == Len(cuts) + 1
        lo(j) == IF j = 1 THEN 1 ELSE cuts[j - 1] + 1
        hi(j) == IF j = k THEN Len(flat) ELSE cuts[j]
    IN  [j \in 1..k |-> SubSeq(flat, lo(j), hi(j))]

Monotone(cuts) == \A i \in 1..(Len(cuts) - 1) : cuts[i] <= cuts[i + 1]
Increasing(cuts) == \A i \in 1..(Len(cuts) - 1) : cuts[i] < cuts[i + 1]

File(tracks, tpb) == [tracks |-> tracks, ticks_per_beat |-> tpb]

\* midi is a file of at most MaxTracks tracks, empty ones included, holding
\* at most MaxMsgs messages of the set M in all
Load(M, TPB) ==
    \E tpb \in TPB :
        \/ midi = File(<<>>, tpb)
        \/ \E n \in 0..MaxMsgs : \E flat \in [1..n -> M] :
             \E k \in 1..MaxTracks : \E cuts \in [1..(k - 1) -> 0..n] :
                /\ Monotone(cuts)
                /\ midi = File(Cut(flat, cuts), tpb)

\* midi is a file of the track first followed by at most MaxTracks non-empty
\* tracks holding at most MaxMsgs messages of the set M in all
LoadAfter(first, M, TPB) ==
    \E tpb \in TPB :
        \/ midi = File(<<first>>, tpb)
        \/ \E n \in 1..MaxMsgs : \E flat \in [1..n -> M] :
             \E k \in 1..MaxTracks : \E cuts \in [1..(k - 1) -> 1..(n - 1)] :
                /\ Increasing(cuts)
                /\ midi = File(<<first>> \o Cut(flat, cuts), tpb)

----------------------------------------------------------------------------
(* The script, statement by statement *)

Tracks == midi.tracks
NumTracks == Len(midi.tracks)

\* lines 12-19: the file is loaded and the module-level state initialised
Start ==
    /\ notes = <<>>
    /\ durations = <<>>
    /\ note_on_times = <<>>
    /\ tempo_events = <<>>
    /\ tempo_bpm = Rat(DEFAULT_TEMPO_BPM)
    /\ current_time = 0
    /\ ti = 0
    /\ mi = 0
    /\ pc = "tempo"
    /\ note_names = <<>>
    /\ dur_values = <<>>
    /\ slow_factor = 0
    /\ cpm_value = 0
    /\ mini_notation = ""
    /\ stdout = <<>>

\* where a track loop goes after entering track t: into its message loop, or
\* straight back to the track loop when the track is empty
AfterTrack(t, msgs, tracks) == IF Len(Tracks[t]) = 0 THEN tracks ELSE msgs

\* where a message loop goes after message m of track t
AfterMsg(t, m, msgs, tracks) == IF m = Len(Tracks[t]) THEN tracks ELSE msgs

\* the messages of all tracks, in track order then message order: the order
\* in which the nested loops of lines 22-23 meet them
RECURSIVE Flatten(_)
Flatten(tracks) ==
    IF tracks = <<>> THEN <<>> ELSE Head(tracks) \o Flatten(Tail(tracks))

IsSetTempo(msg) == msg.type = "set_tempo"

\* variant: a tempo that is in the list already is not appended again
RECURSIVE TempoScanDistinct(_, _)
TempoScanDistinct(msgs, events) ==
    IF msgs = <<>> THEN [events |-> events, raised |-> FALSE]
    ELSE LET msg == Head(msgs) IN
         IF IsSetTempo(msg)
         THEN IF msg.tempo = 0
              THEN [events |-> events, raised |-> TRUE]
              ELSE LET bpm == TrueDiv(MICROSECONDS_PER_MINUTE, msg.tempo) IN
                   TempoScanDistinct(Tail(msgs),
                                     IF \E i \in 1..Len(events) : events[i] = bpm
                                     THEN events ELSE Append(events, bpm))
         ELSE TempoScanDistinct(Tail(msgs), events)

\* lines 22-25 over the messages msgs, starting from the list events:
\* the list at the end of the scan, and whether the scan ran to the end
\* (dividing by a tempo of 0 raises ZeroDivisionError, which nothing catches)
RECURSIVE TempoScan(_, _)
TempoScan(msgs, events) ==
    IF msgs = <<>> THEN [events |-> events, raised |-> FALSE]
    ELSE LET msg == Head(msgs) IN
         IF IsSetTempo(msg)
         THEN IF msg.tempo = 0
              THEN [events |-> events, raised |-> TRUE]
              ELSE TempoScan(Tail(msgs),
                             Append(events, TrueDiv(MICROSECONDS_PER_MINUTE, msg.tempo)))
         ELSE TempoScan(Tail(msgs), events)

\* variant: the last tempo found is used
SelectLastTempo(events, bpm) == IF events # <<>> THEN events[Len(events)] ELSE bpm

\* lines 27-28: if tempo_events: tempo_bpm = tempo_events[0]
SelectTempo(events, bpm) == IF events # <<>> THEN events[1] ELSE bpm

\* lines 22-28: the tempo extraction loops, then the choice of tempo_bpm
ExtractTempo ==
    /\ pc = "tempo"
    /\ LET scan == TempoScan(Flatten(Tracks), tempo_events) IN
        \/ /\ ~scan.raised
           /\ tempo_events' = scan.events
           /\ tempo_bpm' = SelectTempo(scan.events, tempo_bpm)
           /\ pc' = "note_tracks"
        \/ /\ scan.raised
           /\ tempo_events' = scan.events
           /\ tempo_bpm' = tempo_bpm
           /\ pc' = "ZeroDivisionError"
    /\ UNCHANGED <<midi, notes, durations, note_on_times, current_time, ti, mi,
                   note_names, dur_values, slow_factor, cpm_value,
                   mini_notation, stdout>>

\* lines 31-32: for track in midi.tracks: current_time = 0
NoteTrack ==
    /\ pc = "note_tracks"
    /\ ti < NumTracks
    /\ ti' = ti + 1
    /\ mi' = 0
    /\ current_time' = 0
    /\ pc' = AfterTrack(ti + 1, "note_msgs", "note_tracks")
    /\ UNCHANGED <<midi, notes, durations, note_on_times, tempo_events, tempo_bpm,
                   note_names, dur_values, slow_factor, cpm_value,
                   mini_notation, stdout>>

\* d without key k (dict.pop)
Without(d, k) == [x \in DOMAIN d \ {k} |-> d[x]]

\* variant: an entry that exists is kept (dict.setdefault)
WithKeepFirst(d, k, v) ==
    [x \in DOMAIN d \cup {k} |-> IF x \in DOMAIN d THEN d[x] ELSE v]

\* d with d[k] = v (dict item assignment)
With(d, k, v) == [x \in DOMAIN d \cup {k} |-> IF x = k THEN v ELSE d[x]]

\* variant: the new element goes to the front (list.insert(0, x))
ListPrepend(list, x) == <<x>> \o list

\* list.append
ListAppend(list, x) == Append(list, x)

\* variant: only note messages advance the running time
AdvanceOnNotesOnly(time, msg) ==
    IF msg.type \in {"note_on", "note_off"} THEN time + msg.time ELSE time

\* line 34: current_time += msg.time
Advance(time, msg) == time + msg.time

\* variant: the velocity is not looked at
IsOpeningAnyVelocity(msg) == msg.type = "note_on"

\* line 35
IsOpening(msg) == msg.type = "note_on" /\ msg.velocity > 0

\* line 37, reached when line 35 is false
IsClosing(msg, table) ==
    /\ msg.type \in {"note_off", "note_on"}
    /\ msg.note \in DOMAIN table

\* lines 33-41: one message of the note collection loop
NoteMsg ==
    /\ pc = "note_msgs"
    /\ LET msg == Tracks[ti][mi + 1]
           now == Advance(current_time, msg)
       IN
        /\ current_time' = now
        /\ IF IsOpening(msg)
           THEN /\ note_on_times' = With(note_on_times, msg.note, now)
                /\ UNCHANGED <<notes, durations>>
           ELSE IF IsClosing(msg, note_on_times)
           THEN LET start_time == note_on_times[msg.note]
                    dur == TrueDiv(now - start_time, midi.ticks_per_beat)
                IN  /\ note_on_times' = Without(note_on_times, msg.note)
                    /\ notes' = ListAppend(notes, msg.note)
                    /\ durations' = ListAppend(durations, dur)
           ELSE UNCHANGED <<note_on_times, notes, durations>>
    /\ mi' = mi + 1
    /\ pc' = AfterMsg(ti, mi + 1, "note_msgs", "note_tracks")
    /\ UNCHANGED <<midi, tempo_events, tempo_bpm, ti,
                   note_names, dur_values, slow_factor, cpm_value,
                   mini_notation, stdout>>

\* lines 44-51: the track loop is exhausted; names, rounded values, pattern
Render ==
    /\ pc = "note_tracks"
    /\ ti = NumTracks
    /\ note_names' = [i \in 1..Len(notes) |-> note_name(notes[i])]
    /\ dur_values' = [i \in 1..Len(durations) |-> Round(durations[i], DUR_DIGITS)]
    /\ slow_factor' = IF Truthy(tempo_bpm)
                      THEN Round(TrueDiv(DEFAULT_TEMPO_BPM * tempo_bpm[2], tempo_bpm[1]),
                                 SLOW_DIGITS)
                      ELSE 10000
    /\ cpm_value' = Round(RatTimes(tempo_bpm, CPM_FACTOR), CPM_DIGITS)
    /\ mini_notation' = MiniNotation(note_names', dur_values')
    /\ pc' = "output"
    /\ UNCHANGED <<midi, notes, durations, note_on_times, tempo_events, tempo_bpm,
                   current_time, ti, mi, stdout>>

\* line 60
SeveralTempos(events) == Len(events) > 1

\* lines 54-61: the output, and the warning when there are several tempos
Output ==
    /\ pc = "output"
    /\ stdout' =
         << [line |-> "Tempo", bpm |-> tempo_bpm],
            [line |-> "note", pattern |-> mini_notation, cpm |-> cpm_value],
            [line |-> "slow", factor |-> slow_factor] >>
         \o (IF SeveralTempos(tempo_events)
             THEN << [line |-> "Found", count |-> Len(tempo_events),
                      bpm |-> tempo_bpm] >>
             ELSE <<>>)
    /\ pc' = "done"
    /\ UNCHANGED <<midi, notes, durations, note_on_times, tempo_events, tempo_bpm,
                   current_time, ti, mi, note_names, dur_values, slow_factor,
                   cpm_value, mini_notation>>

Next ==
    \/ ExtractTempo
    \/ NoteTrack
    \/ NoteMsg
    \/ Render
    \/ Output

----------------------------------------------------------------------------
(* The explored files *)

Pitches == {60, 64}

\* note-on (velocity 1 and velocity 0) and note-off messages of two pitches
\* and a controller message, one tick after the previous message; a note-on
\* with no delta
NoteMessages ==
    {NoteOn(n, v, 1) : n \in Pitches, v \in {0, 1}}
    \cup {NoteOff(n, 1) : n \in Pitches}
    \cup {Other(1), NoteOn(60, 64, 0)}

\* Files of note tracks behind a tempo track, and the file of a tempo track
\* whose only message has tempo 0
Init ==
    /\ \/ LoadAfter(<<SetTempo(500000, 0)>>, NoteMessages, {3})
       \/ midi = File(<< <<SetTempo(0, 0)>> >>, 3)
    /\ Start

Spec == Init /\ [][Next]_vars

\* Tempo messages (one of them with tempo 0) around one note of pitch 60
TempoMessages ==
    {SetTempo(us, 1) : us \in {0, 500000, 600000, 700000}}
    \cup {NoteOn(60, 64, 0), NoteOff(60, 1)}

InitTempo == Load(TempoMessages, {2, 480}) /\ Start

SpecTempo == InitTempo /\ [][Next]_vars

AllPitches == 0..127

\* One note of any pitch behind a tempo track
InitNoteName ==
    /\ \E p \in AllPitches : \E us \in {0, 500000} : \E tpb \in {1, 480} :
          midi = File(<< <<SetTempo(us, 0)>>, <<NoteOn(p, 64, 0), NoteOff(p, 480)>> >>,
                      tpb)
    /\ Start

SpecNoteName == InitNoteName /\ [][Next]_vars

----------------------------------------------------------------------------
(* What the file says, independently of the run: positions <<t, i>> of the *)
(* messages, their running times, and which release pairs with which strike *)

\* running time of message i of track t: the sum of the deltas of the
\* messages 1..i of the track
RECURSIVE TrackTime(_, _)
TrackTime(t, i) == IF i = 0 THEN 0 ELSE TrackTime(t, i - 1) + Tracks[t][i].time

RECURSIVE PositionsFrom(_)
PositionsFrom(t) ==
    IF t > NumTracks THEN <<>>
    ELSE [i \in 1..Len(Tracks[t]) |-> <<t, i>>] \o PositionsFrom(t + 1)

Positions == PositionsFrom(1)

MsgAt(pos) == Tracks[pos[1]][pos[2]]
Precedes(a, b) == a[1] < b[1] \/ (a[1] = b[1] /\ a[2] < b[2])

\* the note collection loop has handled the message at pos
Handled(pos) == pos[1] < ti \/ (pos[1] = ti /\ pos[2] <= mi)

IsNoteMsg(msg) == msg.type \in {"note_on", "note_off"}
Touches(msg, p) == IsNoteMsg(msg) /\ msg.note = p
Strikes(msg) == msg.type = "note_on" /\ msg.velocity > 0
Releases(msg) == msg.type = "note_off" \/ (msg.type = "note_on" /\ msg.velocity = 0)

\* the positions before pos, in its own track only (sameTrack) or in all the
\* tracks so far
Before(pos, sameTrack) ==
    UNION { {<<u, j>> : j \in 1..(IF u = pos[1] THEN pos[2] - 1 ELSE Len(Tracks[u]))}
            : u \in (IF sameTrack THEN {pos[1]} ELSE 1..pos[1]) }

\* q holds the latest message before pos for the pitch of the message at pos
IsLatestFor(q, pos, sameTrack) ==
    /\ Touches(MsgAt(q), MsgAt(pos).note)
    /\ \A r \in Before(pos, sameTrack) :
          Precedes(q, r) => ~Touches(MsgAt(r), MsgAt(pos).note)

\* the message at pos releases a note that is sounding: the latest message
\* before it for its pitch is a note-on with a velocity above 0
ClosesNote(pos, sameTrack) ==
    /\ Releases(MsgAt(pos))
    /\ \E q \in Before(pos, sameTrack) :
          IsLatestFor(q, pos, sameTrack) /\ Strikes(MsgAt(q))

Opener(pos, sameTrack) ==
    CHOOSE q \in Before(pos, sameTrack) : IsLatestFor(q, pos, sameTrack)

\* ticks from the strike to the release at pos
TicksOf(pos, sameTrack) ==
    LET q == Opener(pos, sameTrack)
    IN  TrackTime(pos[1], pos[2]) - TrackTime(q[1], q[2])

\* the releases handled so far that close a note, in the order of the file
Closers(sameTrack) ==
    IF ti = 0 THEN <<>>
    ELSE SelectSeq(Positions, LAMBDA pos : Handled(pos) /\ ClosesNote(pos, sameTrack))

\* the rational q equals a / b
RatIs(q, a, b) == q[2] > 0 /\ q[1] * b = a * q[2]

\* notes and durations are the events of the closers cs
EventsAre(cs, sameTrack) ==
    /\ Len(notes) = Len(cs)
    /\ Len(durations) = Len(cs)
    /\ \A i \in 1..Len(cs) :
          /\ notes[i] = MsgAt(cs[i]).note
          /\ RatIs(durations[i], TicksOf(cs[i], sameTrack), midi.ticks_per_beat)

InNotePass == pc \in {"note_tracks", "note_msgs"}
Finished == pc = "done"

\* the message the next step of the note collection loop handles
NextMsg == Tracks[ti][mi + 1]

----------------------------------------------------------------------------
(* Claims *)

\* C1: the open-note table is scoped per track: it is empty whenever the
\* processing of a track begins, and every emitted event pairs an opening
\* and a closing message of the same track.
C1_TablePerTrack ==
    /\ (InNotePass /\ ti >= 1 /\ mi = 0) => DOMAIN note_on_times = {}
    /\ EventsAre(Closers(TRUE), TRUE)

\* C10: every emitted duration is non-negative after any prefix of the run.
C10_DurationsNonNegative ==
    \A i \in 1..Len(durations) : durations[i][1] >= 0

\* a step of the note collection loop appends exactly the event (p, ticks / tpb)
AppendsEvent(p, ticks) ==
    /\ notes' = Append(notes, p)
    /\ Len(durations') = Len(durations) + 1
    /\ SubSeq(durations', 1, Len(durations)) = durations
    /\ RatIs(durations'[Len(durations')], ticks, midi.ticks_per_beat)

\* message s of the current track strikes pitch p and no message after it,
\* up to the one handled last, is for p
OpenSince(s, p) ==
    /\ Strikes(Tracks[ti][s])
    /\ Tracks[ti][s].note = p
    /\ \A j \in (s + 1)..mi : ~Touches(Tracks[ti][j], p)

\* C2: within one track, a note-on (velocity > 0) for p at running time s
\* whose next message for p is a note-off or zero-velocity note-on at running
\* time e yields exactly one event (p, (e - s) / ticks_per_beat), the running
\* time being the sum of the deltas of all the messages of the track so far.
C2_PairYieldsOneEvent ==
    [][ \A s \in 1..mi :
          (/\ pc = "note_msgs"
           /\ Releases(NextMsg)
           /\ OpenSince(s, NextMsg.note))
          => AppendsEvent(NextMsg.note, TrackTime(ti, mi + 1) - TrackTime(ti, s)) ]_vars

\* a note-on at tick 0, two controller messages, a note-off at tick 3: one beat
C2_Witness ==
    /\ Finished
    /\ midi.tracks = << <<SetTempo(500000, 0)>>,
                        <<NoteOn(60, 64, 0), Other(1), Other(1), NoteOff(60, 1)>> >>
    /\ notes = <<60>>
    /\ durations = << <<1, 1>> >>
    /\ mini_notation = "C4@1.0"

\* C3: a note-on (velocity > 0) for a pitch that is open replaces the start
\* time and emits nothing; two note-ons for a pitch with no close between
\* them and then a note-off yield one event measured from the second note-on.
C3_Overwrite ==
    [][ pc = "note_msgs" =>
          /\ (Strikes(NextMsg) /\ NextMsg.note \in DOMAIN note_on_times)
                => /\ notes' = notes
                   /\ durations' = durations
                   /\ DOMAIN note_on_times' = DOMAIN note_on_times
                   /\ \A p \in DOMAIN note_on_times :
                         note_on_times'[p] = IF p = NextMsg.note
                                             THEN TrackTime(ti, mi + 1)
                                             ELSE note_on_times[p]
          /\ \A s1 \in 1..mi : \A s2 \in (s1 + 1)..mi :
                (/\ Releases(NextMsg)
                 /\ Strikes(Tracks[ti][s1])
                 /\ Tracks[ti][s1].note = NextMsg.note
                 /\ \A j \in (s1 + 1)..(s2 - 1) : ~Touches(Tracks[ti][j], NextMsg.note)
                 /\ OpenSince(s2, NextMsg.note))
                => AppendsEvent(NextMsg.note,
                                TrackTime(ti, mi + 1) - TrackTime(ti, s2)) ]_vars

\* note-ons at ticks 0 and 1 and a note-off at tick 3: two thirds of a beat
C3_Witness ==
    /\ Finished
    /\ midi.tracks = << <<SetTempo(500000, 0)>>,
                        <<NoteOn(60, 64, 0), NoteOn(60, 1, 1), Other(1), NoteOff(60, 1)>> >>
    /\ notes = <<60>>
    /\ durations = << <<2, 3>> >>

\* C4: a note-off or zero-velocity note-on whose pitch has no open entry, and
\* a message that is neither note-on nor note-off, changes neither the
\* open-note table nor the emitted pitches and durations; it only advances
\* the running time by its delta.
C4_IgnoredMessages ==
    [][ (/\ pc = "note_msgs"
         /\ \/ ~IsNoteMsg(NextMsg)
            \/ Releases(NextMsg) /\ NextMsg.note \notin DOMAIN note_on_times)
        => /\ note_on_times' = note_on_times
           /\ notes' = notes
           /\ durations' = durations
           /\ current_time' = current_time + NextMsg.time ]_vars

\* pitch 64 is open; a note-off, a zero-velocity note-on for pitch 60 and a
\* controller message have been handled
C4_Witness ==
    /\ InNotePass
    /\ midi.tracks = << <<SetTempo(500000, 0)>>,
                        <<NoteOn(64, 1, 1), NoteOff(60, 1), NoteOn(60, 0, 1), Other(1)>> >>
    /\ ti = 2
    /\ mi = 4
    /\ DOMAIN note_on_times = {64}
    /\ note_on_times[64] = 1
    /\ current_time = 4
    /\ notes = <<>>

\* the tokens of the events of the closers cs
TokensOf(cs, sameTrack) ==
    [i \in 1..Len(cs) |->
        note_name(MsgAt(cs[i]).note) \o "@"
            \o FloatStr3(Round(TrueDiv(TicksOf(cs[i], sameTrack), midi.ticks_per_beat),
                               DUR_DIGITS))]

\* C9: the pitch and duration sequences always have the same length, entry i
\* of both comes from the same closing message, the events are in the order
\* of their closing messages, track by track, and the mini-notation has one
\* pitchName@duration token per event in that order.
C9_LockStepOrder ==
    LET cs == Closers(FALSE) IN
    /\ Len(notes) = Len(durations)
    /\ EventsAre(cs, FALSE)
    /\ pc \in {"output", "done"} => mini_notation = Join(TokensOf(cs, FALSE))
    /\ Finished => stdout[2].pattern = mini_notation

\* pitch 60 is struck before pitch 64 and released after it
C9_Witness ==
    /\ Finished
    /\ midi.tracks = << <<SetTempo(500000, 0)>>,
                        <<NoteOn(60, 64, 0), NoteOn(64, 1, 1), NoteOff(64, 1), NoteOff(60, 1)>> >>
    /\ notes = <<64, 60>>
    /\ durations = << <<1, 3>>, <<1, 1>> >>
    /\ mini_notation = "E4@0.333 C4@1.0"

\* the tempo-set messages of the file, in track order then message order
TempoPositions == SelectSeq(Positions, LAMBDA pos : MsgAt(pos).type = "set_tempo")

TempoExtracted == pc \notin {"tempo", "ZeroDivisionError"}

\* bpm is 60,000,000 / microseconds-per-beat of the i-th tempo message
BpmOfTempoMsg(bpm, i) ==
    RatIs(bpm, MICROSECONDS_PER_MINUTE, MsgAt(TempoPositions[i]).tempo)

\* the effective tempo is that of the first tempo message, or 120
EffectiveTempoIsFirst ==
    IF TempoPositions = <<>>
    THEN tempo_bpm = <<120, 1>>
    ELSE BpmOfTempoMsg(tempo_bpm, 1)

\* cpm (in thousandths) is 4 * bpm rounded to three decimals
IsFourTimesRounded(cpm, bpm) ==
    LET diff == 2 * cpm * bpm[2] - 8000 * bpm[1]
    IN  -bpm[2] <= diff /\ diff <= bpm[2]

\* cpm (in thousandths) is 4 * bpm
IsFourTimes(cpm, bpm) == cpm * bpm[2] = 4000 * bpm[1]

\* C5 as amended: the effective tempo is the BPM of the first tempo-set
\* message in track order then message order, or 120 BPM when there is none;
\* the printed cpm value is 4 times the effective tempo rounded to three
\* decimals, 480 when there is no tempo message.
C5_FirstTempoRoundedCpm ==
    /\ TempoExtracted => EffectiveTempoIsFirst
    /\ Finished =>
          /\ stdout[1].bpm = tempo_bpm
          /\ IsFourTimesRounded(stdout[2].cpm, tempo_bpm)
          /\ TempoPositions = <<>> => stdout[2].cpm = 480000

\* C5 as stated: the printed cpm value is always 4 times the effective tempo.
C5_CpmIsFourTimesTempo ==
    /\ TempoExtracted => EffectiveTempoIsFirst
    /\ Finished =>
          /\ stdout[1].bpm = tempo_bpm
          /\ IsFourTimes(stdout[2].cpm, tempo_bpm)
          /\ TempoPositions = <<>> => stdout[2].cpm = 480000

\* a tempo of 700000 (600/7 BPM) followed by a tempo of 500000: cpm 342.857
C5_Witness ==
    /\ Finished
    /\ midi.tracks = << <<SetTempo(700000, 1)>>, <<SetTempo(500000, 1)>> >>
    /\ tempo_bpm = <<600, 7>>
    /\ stdout[2].cpm = 342857

WarningPrinted == Len(stdout) = 4 /\ stdout[4].line = "Found"

\* C6: the tempo list has one entry per tempo-set message of the file, in
\* track order then message order; the warning is printed exactly when the
\* list has more than one entry and reports its length and its first entry;
\* the later tempo messages change neither the durations nor the cpm value.
C6_TempoListAndWarning ==
    /\ TempoExtracted =>
          /\ Len(tempo_events) = Len(TempoPositions)
          /\ \A i \in 1..Len(TempoPositions) : BpmOfTempoMsg(tempo_events[i], i)
    /\ Finished =>
          /\ WarningPrinted <=> Len(TempoPositions) > 1
          /\ WarningPrinted => /\ stdout[4].count = Len(TempoPositions)
                               /\ BpmOfTempoMsg(stdout[4].bpm, 1)
          /\ TempoPositions # <<>> =>
                \E first \in {tempo_events[1]} :
                    /\ BpmOfTempoMsg(first, 1)
                    /\ IsFourTimesRounded(stdout[2].cpm, first)
          /\ EventsAre(Closers(FALSE), FALSE)

\* tempos of 500000 and 600000 around a note: [120.0, 100.0], warning with 2
C6_Witness ==
    /\ Finished
    /\ midi.tracks = << <<SetTempo(500000, 1), NoteOn(60, 64, 0),
                          SetTempo(600000, 1), NoteOff(60, 1)>> >>
    /\ tempo_events = << <<120, 1>>, <<100, 1>> >>
    /\ stdout[4] = [line |-> "Found", count |-> 2, bpm |-> <<120, 1>>]
    /\ stdout[2].cpm = 480000
    /\ durations = << TrueDiv(2, midi.ticks_per_beat) >>

\* C7: no input, a tempo-set message of 0 microseconds per beat included,
\* ends the run in a division by zero.
C7_NoDivisionByZero == pc # "ZeroDivisionError"

\* the semitone names, by position in the octave
SemitoneName(k) ==
    CASE k = 0 -> "C" [] k = 1 -> "C#" [] k = 2 -> "D" [] k = 3 -> "D#"
      [] k = 4 -> "E" [] k = 5 -> "F" [] k = 6 -> "F#" [] k = 7 -> "G"
      [] k = 8 -> "G#" [] k = 9 -> "A" [] k = 10 -> "A#" [] k = 11 -> "B"

\* name is the name of pitch p: for the octave o of -1..9 that holds p, the
\* semitone name of p's place in the octave followed by o
IsNameOf(name, p) ==
    \E o \in -1..9 : \E k \in 0..11 :
        /\ p = 12 * (o + 1) + k
        /\ name = SemitoneName(k) \o ToString(o)

\* C8: for every pitch p of 0..127, note_name(p) is the (p mod 12)-th semitone
\* name followed by the octave (p div 12) - 1, so pitch 60 is C4, and no two
\* pitches have the same name.
C8_NoteName ==
    pc \in {"output", "done"} =>
        \A i \in 1..Len(notes) :
            /\ IsNameOf(note_names[i], notes[i])
            /\ notes[i] = 60 => note_names[i] = "C4"
            /\ notes[i] \in 0..11 => \E k \in 0..11 : note_names[i] = SemitoneName(k) \o "-1"
            /\ notes[i] \in 120..127 => \E k \in 0..7 : note_names[i] = SemitoneName(k) \o "9"
            /\ \A q \in AllPitches : note_name(q) = note_names[i] => q = notes[i]

\* pitch 0 is rendered as C-1
C8_Witness ==
    /\ Finished
    /\ notes = <<0>>
    /\ note_names = <<"C-1">>
    /\ mini_notation = "C-1@1.0"

====
